---- MODULE Spec2Model ----
(***************************************************************************)
(* Model of the routing table of droute (src/droute/src/router/table.rs):  *)
(* the build-time validation done by Table::new / traverse and the         *)
(* per-query walk done by Table::route.                                    *)
(***************************************************************************)
EXTENDS Integers, Sequences, FiniteSets, TLC

\* ------------------------------------------------------------------------
\* Bounds of the model
\* ------------------------------------------------------------------------
\* Longest rule list handed to Table::new in the graph specification.
MaxRules == 3
\* Longest rule list handed to Table::new in the upstream specification.
MaxUpRules == 3

\* Tags a rule may carry, and tags a branch may name as its next, in the
\* graph specification.  A next tag with no rule of that tag in the list is
\* an undefined tag.
RuleTags == {"start", "a", "b", "end"}

NextTags == {"start", "a", "b", "end"}

\* The universe of the upstream specification: fewer edges, but branches
\* with Query actions ("a" names a rule and an upstream).
UpRuleTags == {"start", "a", "b"}

UpNextTags == {"a", "end"}

\* ------------------------------------------------------------------------
\* Values
\* ------------------------------------------------------------------------
\* The actions of a branch: Query names one upstream.
Query(upstream) == [kind |-> "Query", upstream |-> upstream]

\* Rule::new(tag, matcher, (actions, next), (actions, next)); the matcher is
\* left out of the value, its outcome is an input of every routing step.
Rule(tag, on_match, no_match) ==
    [tag |-> tag, on_match |-> on_match, no_match |-> no_match]

Branch(actions, next) == [actions |-> actions, next |-> next]

on_match_next(r) == r.on_match.next

no_match_next(r) == r.no_match.next

RECURSIVE ActionUpstreams(_, _)
ActionUpstreams(actions, i) ==
    IF i > Len(actions) THEN {}
    ELSE (IF actions[i].kind = "Query" THEN {actions[i].upstream} ELSE {})
         \cup ActionUpstreams(actions, i + 1)

\* Rule::used_upstreams: the upstreams named by the actions of both branches.
RuleUsedUpstreams(r) ==
    ActionUpstreams(r.on_match.actions, 1) \cup ActionUpstreams(r.no_match.actions, 1)

\* ValidateCell: a call-depth counter and a usage bit.
CellDefault == [val |-> 0, used |-> FALSE]

CellVal(c) == c.val

CellUsed(c) == c.used

CellAdd(c, n) == [val |-> c.val + n, used |-> TRUE]

CellSub(c, n) == [val |-> c.val - n, used |-> c.used]

\* Result<_, TableError> of the table operations.
OkUnit == [kind |-> "Ok", label |-> "", set |-> {}]

UnusedRules(s) == [kind |-> "UnusedRules", label |-> "", set |-> s]

RuleRecursion(t) == [kind |-> "RuleRecursion", label |-> t, set |-> {}]

UndefinedTag(t) == [kind |-> "UndefinedTag", label |-> t, set |-> {}]

MultipleDef(t) == [kind |-> "MultipleDef", label |-> t, set |-> {}]

EmptyMap == [t \in {} |-> {}]

\* ------------------------------------------------------------------------
\* traverse: depth-first validation of the table
\* ------------------------------------------------------------------------
\* traverse without the walk into the no_match branch.
RECURSIVE traverse_SkipNoMatch(_, _)
traverse_SkipNoMatch(bucket, tag) ==
    IF tag \notin DOMAIN bucket
    THEN [res |-> UndefinedTag(tag), bucket |-> bucket]
    ELSE LET val      == CellVal(bucket[tag].cell)
             on_match == on_match_next(bucket[tag].rule)
         IN  IF val >= 1
             THEN [res |-> RuleRecursion(tag), bucket |-> bucket]
             ELSE LET b1 == [bucket EXCEPT ![tag].cell = CellAdd(@, 1)]
                      r1 == IF on_match # "end"
                            THEN traverse_SkipNoMatch(b1, on_match)
                            ELSE [res |-> OkUnit, bucket |-> b1]
                  IN  IF r1.res.kind # "Ok" THEN r1
                      ELSE [res    |-> OkUnit,
                            bucket |-> [r1.bucket EXCEPT
                                          ![tag].cell = CellSub(@, 1)]]

\* traverse without the decrement of the counter on exit.
RECURSIVE traverse_NoSub(_, _)
traverse_NoSub(bucket, tag) ==
    IF tag \notin DOMAIN bucket
    THEN [res |-> UndefinedTag(tag), bucket |-> bucket]
    ELSE LET val      == CellVal(bucket[tag].cell)
             on_match == on_match_next(bucket[tag].rule)
             no_match == no_match_next(bucket[tag].rule)
         IN  IF val >= 1
             THEN [res |-> RuleRecursion(tag), bucket |-> bucket]
             ELSE LET b1 == [bucket EXCEPT ![tag].cell = CellAdd(@, 1)]
                      r1 == IF on_match # "end"
                            THEN traverse_NoSub(b1, on_match)
                            ELSE [res |-> OkUnit, bucket |-> b1]
                  IN  IF r1.res.kind # "Ok" THEN r1
                      ELSE IF no_match # "end"
                           THEN traverse_NoSub(r1.bucket, no_match)
                           ELSE [res |-> OkUnit, bucket |-> r1.bucket]

\* traverse walking the no_match branch before the on_match branch.
RECURSIVE traverse_NoMatchFirst(_, _)
traverse_NoMatchFirst(bucket, tag) ==
    IF tag \notin DOMAIN bucket
    THEN [res |-> UndefinedTag(tag), bucket |-> bucket]
    ELSE LET val      == CellVal(bucket[tag].cell)
             on_match == on_match_next(bucket[tag].rule)
             no_match == no_match_next(bucket[tag].rule)
         IN  IF val >= 1
             THEN [res |-> RuleRecursion(tag), bucket |-> bucket]
             ELSE LET b1 == [bucket EXCEPT ![tag].cell = CellAdd(@, 1)]
                      r1 == IF no_match # "end"
                            THEN traverse_NoMatchFirst(b1, no_match)
                            ELSE [res |-> OkUnit, bucket |-> b1]
                  IN  IF r1.res.kind # "Ok" THEN r1
                      ELSE LET r2 == IF on_match # "end"
                                     THEN traverse_NoMatchFirst(r1.bucket, on_match)
                                     ELSE [res |-> OkUnit, bucket |-> r1.bucket]
                           IN  IF r2.res.kind # "Ok" THEN r2
                               ELSE [res    |-> OkUnit,
                                     bucket |-> [r2.bucket EXCEPT
                                                   ![tag].cell = CellSub(@, 1)]]

RECURSIVE traverse(_, _)
traverse(bucket, tag) ==
    IF tag \notin DOMAIN bucket
    THEN [res |-> UndefinedTag(tag), bucket |-> bucket]
    ELSE LET val      == CellVal(bucket[tag].cell)
             on_match == on_match_next(bucket[tag].rule)
             no_match == no_match_next(bucket[tag].rule)
         IN  IF val >= 1
             THEN [res |-> RuleRecursion(tag), bucket |-> bucket]
             ELSE LET b1 == [bucket EXCEPT ![tag].cell = CellAdd(@, 1)]
                      r1 == IF on_match # "end"
                            THEN traverse(b1, on_match)
                            ELSE [res |-> OkUnit, bucket |-> b1]
                  IN  IF r1.res.kind # "Ok" THEN r1
                      ELSE LET r2 == IF no_match # "end"
                                     THEN traverse(r1.bucket, no_match)
                                     ELSE [res |-> OkUnit, bucket |-> r1.bucket]
                           IN  IF r2.res.kind # "Ok" THEN r2
                               ELSE [res    |-> OkUnit,
                                     bucket |-> [r2.bucket EXCEPT
                                                   ![tag].cell = CellSub(@, 1)]]

\* ------------------------------------------------------------------------
\* Table::new
\* ------------------------------------------------------------------------
\* The loop that collects the rules into a map keyed by tag.
\* The collecting loop without the duplicate check: a later rule replaces
\* an earlier one of the same tag.
RECURSIVE CollectRules_Overwrite(_, _, _)
CollectRules_Overwrite(rs, i, table) ==
    IF i > Len(rs) THEN [res |-> OkUnit, table |-> table]
    ELSE CollectRules_Overwrite(rs, i + 1,
             [k \in DOMAIN table \cup {rs[i].tag} |->
                 IF k = rs[i].tag THEN rs[i] ELSE table[k]])

\* The collecting loop reporting the tag of the last rule instead of the
\* tag of the rule that is defined again.
RECURSIVE CollectRules_ReportLast(_, _, _)
CollectRules_ReportLast(rs, i, table) ==
    IF i > Len(rs) THEN [res |-> OkUnit, table |-> table]
    ELSE IF rs[i].tag \in DOMAIN table
         THEN [res |-> MultipleDef(rs[Len(rs)].tag), table |-> table]
         ELSE CollectRules_ReportLast(rs, i + 1, table @@ (rs[i].tag :> rs[i]))

RECURSIVE CollectRules(_, _, _)
CollectRules(rs, i, table) ==
    IF i > Len(rs) THEN [res |-> OkUnit, table |-> table]
    ELSE IF rs[i].tag \in DOMAIN table
         THEN [res |-> MultipleDef(rs[i].tag), table |-> table]
         ELSE CollectRules(rs, i + 1, table @@ (rs[i].tag :> rs[i]))

\* The bucket: one fresh cell per rule of the table.
NewBucket(table) ==
    [k \in DOMAIN table |-> [cell |-> CellDefault, rule |-> table[k]]]

\* The upstreams of the rules whose cell is not marked used.
CollectUsedUpstreams_Unused(bucket) ==
    UNION {RuleUsedUpstreams(bucket[k].rule) :
             k \in {t \in DOMAIN bucket : ~CellUsed(bucket[t].cell)}}

\* The upstreams of the rules whose cell is marked used.
CollectUsedUpstreams(bucket) ==
    UNION {RuleUsedUpstreams(bucket[k].rule) :
             k \in {t \in DOMAIN bucket : CellUsed(bucket[t].cell)}}

\* The unused tags, taking a Query of a used rule as a use of the rule that
\* has the upstream's label as its tag.
CollectUnused_UpstreamIsUse(bucket) ==
    {k \in DOMAIN bucket : ~CellUsed(bucket[k].cell)}
        \ CollectUsedUpstreams(bucket)

\* The unused tags read from the counter, which is back at 0 after the walk,
\* with the test the wrong way round.
CollectUnused_ByCounter(bucket) ==
    {k \in DOMAIN bucket : CellVal(bucket[k].cell) >= 1}

\* The tags of the rules whose cell is not marked used.
CollectUnused(bucket) ==
    {k \in DOMAIN bucket : ~CellUsed(bucket[k].cell)}

NoTable == [rules |-> EmptyMap, used_upstreams |-> {}]

TableNew(rs) ==
    LET c == CollectRules(rs, 1, EmptyMap)
    IN  IF c.res.kind # "Ok" THEN [res |-> c.res, table |-> NoTable]
        ELSE LET t == traverse(NewBucket(c.table), "start")
             IN  IF t.res.kind # "Ok" THEN [res |-> t.res, table |-> NoTable]
                 ELSE LET used_upstreams == CollectUsedUpstreams(t.bucket)
                          unused         == CollectUnused(t.bucket)
                      IN  IF unused # {}
                          THEN [res |-> UnusedRules(unused), table |-> NoTable]
                          ELSE [res   |-> OkUnit,
                                table |-> [rules          |-> c.table,
                                           used_upstreams |-> used_upstreams]]

\* Table::validate without the report of unused rules.
validate_IgnoreUnused(self) ==
    LET t == traverse(NewBucket(self.rules), "start")
    IN  IF t.res.kind # "Ok" THEN t.res ELSE OkUnit

\* Table::validate: the walk from "start" over a fresh bucket of the
\* table's rules, then the report of the rules it left unused.  The set of
\* upstreams it is handed is not looked at.
validate(self) ==
    LET t == traverse(NewBucket(self.rules), "start")
    IN  IF t.res.kind # "Ok" THEN t.res
        ELSE LET unused == CollectUnused(t.bucket)
             IN  IF unused = {} THEN OkUnit ELSE UnusedRules(unused)

\* ------------------------------------------------------------------------
\* Inputs
\* ------------------------------------------------------------------------
\* Every rule over the given tags, next tags and action lists.
RulesOver(tags, nexts, acts) ==
    {Rule(t, Branch(a1, n1), Branch(a2, n2)) :
        t \in tags, n1 \in nexts, n2 \in nexts, a1 \in acts, a2 \in acts}

\* The action lists of the upstream specification.
UpActions == {<<>>, <<Query("a")>>, <<Query("up"), Query("a")>>}

\* The rule lists of the specification with two concurrent route calls.
MaxParRules == 2

ParRuleTags == {"start", "a"}

ParNextTags == {"a", "end"}

ParActions == {<<>>, <<Query("a")>>, <<Query("up")>>}

\* ------------------------------------------------------------------------
\* Rule::route and the world a route call runs in
\* ------------------------------------------------------------------------
\* The query messages: the first has an empty question section, the others
\* one question for the given name.
Queries == {[questions |-> <<>>],
            [questions |-> <<"listed">>],
            [questions |-> <<"other">>]}

\* What the matchers and upstreams answer.  A free mock leaves every matcher
\* outcome and every action failure open.  A fixed mock is deterministic:
\* the matcher of a rule in `any` matches every query, the matcher of any
\* other rule matches the name "listed" only, and a Query fails exactly when
\* its upstream is in `failing`.
FreeMock == [free |-> TRUE, any |-> {}, failing |-> {}]

FixedMock(any, failing) == [free |-> FALSE, any |-> any, failing |-> failing]

MockMatches(m, t, q) == t \in m.any \/ q.questions[1] = "listed"

RECURSIVE FirstFailing(_, _, _)
FirstFailing(m, actions, i) ==
    IF i > Len(actions) THEN 0
    ELSE IF actions[i].kind = "Query" /\ actions[i].upstream \in m.failing
         THEN i
         ELSE FirstFailing(m, actions, i + 1)

\* The response left by a branch's actions: each Query overwrites it.
RECURSIVE ApplyActions(_, _, _)
ApplyActions(actions, i, r) ==
    IF i > Len(actions) THEN r
    ELSE ApplyActions(actions, i + 1,
                      IF actions[i].kind = "Query" THEN actions[i].upstream ELSE r)

\* What a route call does, in order: a rule is entered and its matcher
\* evaluated ("match"), an action is started ("start") and ends ("done") or
\* fails ("fail").
MatchEvent(t, matched) ==
    [ev |-> "match", tag |-> t, matched |-> matched, idx |-> 0]

ActionEvent(ev, t, matched, i) ==
    [ev |-> ev, tag |-> t, matched |-> matched, idx |-> i]

\* The events of the actions i..n of a branch when action failAt fails
\* (0: none fails).
RECURSIVE ActionEvents(_, _, _, _, _)
ActionEvents(t, matched, i, n, failAt) ==
    IF i > n THEN <<>>
    ELSE IF i = failAt
         THEN <<ActionEvent("start", t, matched, i), ActionEvent("fail", t, matched, i)>>
         ELSE <<ActionEvent("start", t, matched, i), ActionEvent("done", t, matched, i)>>
                  \o ActionEvents(t, matched, i + 1, n, failAt)

\* Rule::route with every action started at once and awaited together.
RuleRoute_JoinAll(r, r0, matched, failAt) ==
    LET branch == IF matched THEN r.on_match ELSE r.no_match
        n      == Len(branch.actions)
    IN  [ok     |-> failAt = 0,
         resp   |-> ApplyActions(branch.actions, 1, r0),
         next   |-> branch.next,
         events |-> <<MatchEvent(r.tag, matched)>>
                        \o [i \in 1..n |-> ActionEvent("start", r.tag, matched, i)]
                        \o [i \in 1..n |-> ActionEvent(IF i = failAt THEN "fail" ELSE "done",
                                                       r.tag, matched, i)]]

\* Rule::route: the branch the matcher chooses has its actions applied in
\* order, up to the first that fails; the branch's next is the new tag.
RuleRoute(r, r0, matched, failAt) ==
    LET branch == IF matched THEN r.on_match ELSE r.no_match
        n      == Len(branch.actions)
        k      == IF failAt = 0 THEN n ELSE failAt - 1
    IN  [ok     |-> failAt = 0,
         resp   |-> ApplyActions(SubSeq(branch.actions, 1, k), 1, r0),
         next   |-> branch.next,
         events |-> <<MatchEvent(r.tag, matched)>>
                        \o ActionEvents(r.tag, matched, 1, n, failAt)]

\* The matcher outcome and the failing action that the mock allows for rule
\* r on query q.
MockAllows(m, r, q, matched, failAt) ==
    LET branch == IF matched THEN r.on_match ELSE r.no_match
    IN  /\ failAt \in 0..Len(branch.actions)
        /\ m.free \/ (/\ matched = MockMatches(m, r.tag, q)
                      /\ failAt = FirstFailing(m, branch.actions, 1))

\* ------------------------------------------------------------------------
\* Hosts: the reverse-label trie of dmatcher
\* ------------------------------------------------------------------------
MaxLabels == 3

MaxEntries == 2

Labels == {"x", "y"}

Ips == {"1.2.3.4", "9.9.9.9"}

\* A domain name, written as its labels from the leftmost to the top-level
\* one; the root label that ends every Dname is not written.
Names == UNION {[1..k -> Labels] : k \in 0..MaxLabels}

RootLabel == ""

\* MatchType
MatchNone == [kind |-> "None", ip |-> "none"]

Subdomain(ip) == [kind |-> "Subdomain", ip |-> ip]

Server(ip) == [kind |-> "Server", ip |-> ip]

\* domain.iter().rev(): the labels from the root label down to the leftmost.
RevLabels(d) ==
    [i \in 1..(Len(d) + 1) |-> IF i = 1 THEN RootLabel ELSE d[Len(d) + 2 - i]]

\* domain.label_count(): the root label counts.
label_count(d) == Len(d) + 1

\* A trie is the payload of each of its nodes; a node is the path of labels
\* that leads to it from the root node <<>>.  LevelNode::new
NewTrie == <<>> :> MatchNone

\* ptr.next_lvs.is_empty()
NoNextLvs(h, ptr) ==
    ~ \E p \in DOMAIN h : Len(p) = Len(ptr) + 1 /\ SubSeq(p, 1, Len(ptr)) = ptr

\* Hosts::insert: the nodes on the way are created without payload where
\* they are missing, the last one takes the payload.
insert(h, domain, ip) ==
    LET labs == RevLabels(domain)
        way  == {SubSeq(labs, 1, k) : k \in 0..Len(labs)}
    IN  [p \in DOMAIN h \cup way |->
            IF p = labs THEN ip
            ELSE IF p \in DOMAIN h THEN h[p] ELSE MatchNone]

\* The loop of Hosts::matches from the i-th label on: ptr is the node
\* reached, ip_ptr the payload tracked, count the label count of the name.
\* Its value is the payload the function ends with: that of a Server node
\* met at the depth of the name, or else ip_ptr.
\* The loop of Hosts::matches with Server nodes tracked like the others.
RECURSIVE MatchesLoop_TrackServer(_, _, _, _, _, _)
MatchesLoop_TrackServer(h, labs, i, ptr, ip_ptr, count) ==
    IF i > Len(labs) THEN ip_ptr
    ELSE IF NoNextLvs(h, ptr) THEN ip_ptr
    ELSE LET v == Append(ptr, labs[i])
         IN  IF v \notin DOMAIN h THEN ip_ptr
             ELSE IF h[v].kind = "Server" /\ count = i THEN h[v]
                  ELSE MatchesLoop_TrackServer(h, labs, i + 1, v, h[v], count)

RECURSIVE MatchesLoop(_, _, _, _, _, _)
MatchesLoop(h, labs, i, ptr, ip_ptr, count) ==
    IF i > Len(labs) THEN ip_ptr
    ELSE IF NoNextLvs(h, ptr) THEN ip_ptr
    ELSE LET v == Append(ptr, labs[i])
         IN  IF v \notin DOMAIN h THEN ip_ptr
             ELSE IF h[v].kind = "Server"
                  THEN IF count = i THEN h[v]
                       ELSE MatchesLoop(h, labs, i + 1, v, ip_ptr, count)
                  ELSE MatchesLoop(h, labs, i + 1, v, h[v], count)

\* Hosts::matches with the labels counted without the root label.
matches_CountWithoutRoot(h, domain) ==
    MatchesLoop(h, RevLabels(domain), 1, <<>>, h[<<>>], Len(domain)).ip

\* Hosts::matches: "none" is Option::None, an ip is Some(ip).
matches(h, domain) ==
    MatchesLoop(h, RevLabels(domain), 1, <<>>, h[<<>>], label_count(domain)).ip

\* ------------------------------------------------------------------------
\* The hosts value of the scripting utilities: hosts files and add_host
\* ------------------------------------------------------------------------
MaxLines == 2

\* The names a hosts file or add_host call can give.
ScriptNames == {<<"x">>, <<"y", "x">>}

\* The text of an address: of an IPv4 address, an IPv6 address, or neither.
IpText(family, addr) == [family |-> family, addr |-> addr]

IpTexts == {IpText("v4", "1.2.3.4"), IpText("v6", "::1"), IpText("bad", "1.2.3")}

\* A whitespace-separated field of a line.  `text` tells the fields apart;
\* `allowed` says whether all its characters are letters, digits, `-` or
\* `.`; `name` is what Dname::from_str makes of it (BadName for an error);
\* `bang` whether its first byte is `!`; `ip` the address text, after the
\* `!` if there is one.
Field(text, allowed, name, bang, ip) ==
    [text |-> text, allowed |-> allowed, name |-> name, bang |-> bang, ip |-> ip]

NoIp == IpText("bad", "")

BadName == <<"?">>

NameField(n) == Field("name", TRUE, n, FALSE, NoIp)

\* `#` or the start of `# comment`.
CommentField == Field("#", FALSE, BadName, FALSE, NoIp)

\* A name with a character outside the allowed ones, as ap_ple.com.
BadCharField == Field("ap_ple.com", FALSE, BadName, FALSE, NoIp)

\* A name of allowed characters that is no domain name, as a..com.
BadNameField == Field("a..com", TRUE, BadName, FALSE, NoIp)

IpField(bang, ip) == Field("ip", FALSE, BadName, bang, ip)

IpFields ==
    {IpField(FALSE, ip) : ip \in IpTexts} \cup {IpField(TRUE, IpText("v4", "9.9.9.9"))}

\* A line of a file: `empty` is line.is_empty(), `fields` is
\* line.split_whitespace().collect().
Line(empty, fields) == [empty |-> empty, fields |-> fields]

EmptyLine == Line(TRUE, <<>>)

\* A line of spaces or tabs only.
BlankLine == Line(FALSE, <<>>)

\* The lines: empty, blank, of one field, of a name and an address, and of
\* a first field that is no name followed by an address.
Lines ==
    {EmptyLine, BlankLine}
        \cup {Line(FALSE, <<f>>) : f \in {CommentField, NameField(<<"x">>)}}
        \cup {Line(FALSE, <<NameField(n), g>>) : n \in ScriptNames, g \in IpFields}
        \cup {Line(FALSE, <<f, IpField(FALSE, IpText("v4", "1.2.3.4"))>>) :
                  f \in {CommentField, BadCharField, BadNameField}}

Files == UNION {[1..k -> Lines] : k \in 0..MaxLines}

\* The outcome of an operation: Ok with the list it produced, an error
\* value, or a panic.
Outcome(kind, cfg) == [kind |-> kind, cfg |-> cfg]

\* Ipv4Addr::from_str
Ipv4FromStr(t) == [ok |-> t.family = "v4", ip |-> t.addr]

\* into_hosts_config, from line i on, with the entries cfg collected so far.
\* The fields c[0] and c[1] of the source are c[1] and c[2] here; indexing
\* a field that is not there panics, as does unwrap on an address that
\* Ipv4Addr::from_str rejects; a name Dname::from_str rejects is returned
\* as the error.
RECURSIVE into_hosts_config(_, _, _)
into_hosts_config(list, i, cfg) ==
    IF i > Len(list) THEN Outcome("Ok", cfg)
    ELSE LET line == list[i]
             c    == line.fields
         IN  IF line.empty THEN into_hosts_config(list, i + 1, cfg)
             ELSE IF Len(c) = 0 THEN Outcome("Panic", <<>>)
             ELSE IF ~c[1].allowed THEN into_hosts_config(list, i + 1, cfg)
             ELSE IF Len(c) < 2 THEN Outcome("Panic", <<>>)
             ELSE IF c[1].name = BadName THEN Outcome("Err", <<>>)
             ELSE LET ip == Ipv4FromStr(c[2].ip)
                  IN  IF ~ip.ok THEN Outcome("Panic", <<>>)
                      ELSE into_hosts_config(list, i + 1,
                               Append(cfg, <<c[1].name,
                                             IF c[2].bang THEN Server(ip.ip)
                                                          ELSE Subdomain(ip.ip)>>))

\* .iter().for_each(|d| self.0.insert(&d.0, &d.1))
RECURSIVE InsertAll(_, _, _)
InsertAll(h, cfg, i) ==
    IF i > Len(cfg) THEN h
    ELSE InsertAll(insert(h, cfg[i][1], cfg[i][2]), cfg, i + 1)

\* Hosts::add_file: the outcome and the table after it.  A file that cannot
\* be opened or read is an error.
add_file(h, readable, list) ==
    IF ~readable THEN [out |-> Outcome("Err", <<>>), hosts |-> h]
    ELSE LET r == into_hosts_config(list, 1, <<>>)
         IN  [out |-> r, hosts |-> IF r.kind = "Ok" THEN InsertAll(h, r.cfg, 1) ELSE h]

\* Hosts::add_host: both conversions are unwrapped.
add_host(h, s, ip, is_server) ==
    IF s.name = BadName THEN [out |-> Outcome("Panic", <<>>), hosts |-> h]
    ELSE LET a == Ipv4FromStr(ip)
         IN  IF ~a.ok THEN [out |-> Outcome("Panic", <<>>), hosts |-> h]
             ELSE LET m == IF is_server THEN Server(a.ip) ELSE Subdomain(a.ip)
                  IN  [out  |-> Outcome("Ok", <<<<s.name, m>>>>),
                       hosts |-> insert(h, s.name, m)]

\* The functions the script module registers for hosts, domain and ip
\* datasets: the type of the value they take and their name.
Fn(recv, name) == [recv |-> recv, name |-> name]

ModuleFns_AddOnSealed ==
    {Fn("Domain", "add_qname"), Fn("Domain", "add_file"), Fn("Domain", "seal"),
     Fn("SealedDomain", "contains"),
     Fn("Hosts", "add_host"), Fn("Hosts", "add_file"), Fn("Hosts", "seal"),
     Fn("SealedHosts", "reslove"), Fn("SealedHosts", "add_host"),
     Fn("IpCidr", "add_file"), Fn("IpCidr", "seal"),
     Fn("SealedIpCidr", "contains")}

ModuleFns ==
    {Fn("Domain", "add_qname"), Fn("Domain", "add_file"), Fn("Domain", "seal"),
     Fn("SealedDomain", "contains"),
     Fn("Hosts", "add_host"), Fn("Hosts", "add_file"), Fn("Hosts", "seal"),
     Fn("SealedHosts", "reslove"),
     Fn("IpCidr", "add_file"), Fn("IpCidr", "seal"),
     Fn("SealedIpCidr", "contains")}

\* The type of the hosts value in each phase.
TypeOf(ph) == IF ph = "sealed" THEN "SealedHosts" ELSE "Hosts"

\* ------------------------------------------------------------------------
\* fast_answer and fast_answer_ip
\* ------------------------------------------------------------------------
MaxQuestions == 2

Ttl == 86400

Octets == {1, 255}

\* IpAddr
V4(a, b, c, d) == [family |-> "v4", addr |-> <<a, b, c, d>>]

V6(addr) == [family |-> "v6", addr |-> <<addr>>]

IpAddrs ==
    {V4(a, b, c, d) : a \in Octets, b \in Octets, c \in Octets, d \in Octets}
        \cup {V6("::1"), V6("fe80::1")}

Question(qname, qtype) == [qname |-> qname, qtype |-> qtype]

Questions == {Question(n, t) : n \in {<<"x">>, <<"y", "x">>}, t \in {"A", "AAAA"}}

\* A message: its id, whether it is a response, its rcode, its question
\* section and its answer section.
Message(id, qr, rcode, questions, answers) ==
    [id |-> id, qr |-> qr, rcode |-> rcode, questions |-> questions, answers |-> answers]

QueryMessages ==
    UNION {{Message(id, FALSE, "NoError", qs, <<>>) : id \in {0, 1}, qs \in [1..k -> Questions]} :
               k \in 0..MaxQuestions}

\* An answer record (owner, class, ttl, data).
Record(owner, class, ttl, rtype, data) ==
    [owner |-> owner, class |-> class, ttl |-> ttl, rtype |-> rtype, data |-> data]

\* What a function returned: Ok with a value, or a panic.
Returned(kind, val) == [kind |-> kind, val |-> val]

Panicked == Returned("Panic", <<>>)

\* MessageBuilder::start_answer(query, rcode): the id and the questions of
\* the query, the response bit, the rcode.
start_answer(query, rcode) ==
    Message(query.id, TRUE, rcode, query.questions, <<>>)

\* The root name, which has no label but the root label.
RootName == <<>>

\* fast_answer with the record owned by the root name.
fast_answer_RootOwner(query, a, b, c, d) ==
    LET builder == start_answer(query, "NoError")
    IN  IF query.questions = <<>> THEN Panicked
        ELSE Returned("Ok",
                 [builder EXCEPT !.answers =
                      Append(@, Record(RootName, "IN", Ttl, "A", <<a, b, c, d>>))])

\* fast_answer: first_question().unwrap() panics without a question.
fast_answer(query, a, b, c, d) ==
    LET builder == start_answer(query, "NoError")
    IN  IF query.questions = <<>> THEN Panicked
        ELSE Returned("Ok",
                 [builder EXCEPT !.answers =
                      Append(@, Record(query.questions[1].qname, "IN", Ttl, "A",
                                       <<a, b, c, d>>))])

\* fast_answer_ip
fast_answer_ip(query, ip) ==
    LET builder == start_answer(query, "NoError")
    IN  IF query.questions = <<>> THEN Panicked
        ELSE Returned("Ok",
                 [builder EXCEPT !.answers =
                      Append(@, Record(query.questions[1].qname, "IN", Ttl,
                                       IF ip.family = "v4" THEN "A" ELSE "AAAA",
                                       ip.addr))])

\* ------------------------------------------------------------------------
\* The fast_answer function of the script module
\* ------------------------------------------------------------------------
\* The i64 values a script hands over.
I64Samples == {-2147483647, -129, -1, 0, 255, 300}

\* The bit of weight 2^i in the two's complement form of x: the arithmetic
\* shift right by i is the floor division by 2^i.
BitOf(x, i) == (x \div (2 ^ i)) % 2

\* `x as u8` with the low seven bits kept only.
AsU8_SevenBits(x) ==
    BitOf(x, 0) + 2 * BitOf(x, 1) + 4 * BitOf(x, 2) + 8 * BitOf(x, 3)
        + 16 * BitOf(x, 4) + 32 * BitOf(x, 5) + 64 * BitOf(x, 6)

\* `x as u8` saturating at the ends of the u8 range.
AsU8_Saturating(x) == IF x < 0 THEN 0 ELSE IF x > 255 THEN 255 ELSE x

\* `x as u8` on an i64: the low eight bits of the two's complement form.
AsU8(x) ==
    BitOf(x, 0) + 2 * BitOf(x, 1) + 4 * BitOf(x, 2) + 8 * BitOf(x, 3)
        + 16 * BitOf(x, 4) + 32 * BitOf(x, 5) + 64 * BitOf(x, 6)
        + 128 * BitOf(x, 7)

\* The closure registered as "fast_answer": the message is handed on as it
\* is (the script's Message wraps the DNS message), the integers are cast.
UtilsFastAnswer(msg, a, b, c, d) ==
    fast_answer(msg, AsU8(a), AsU8(b), AsU8(c), AsU8(d))

\* ------------------------------------------------------------------------
\* The deserialization of a branch: BranchVisitor::visit_seq
\* ------------------------------------------------------------------------
MaxSeq == 3

\* An element of the list as Either deserializes it: an action, a tag, or
\* a value that is neither, for which next_element returns an error.
Element(kind, val) == [kind |-> kind, val |-> val]

Elements ==
    {Element("Action", "query"), Element("Action", "blackhole"),
     Element("Tag", "end"), Element("Tag", "a"), Element("Neither", "42")}

BranchLists == UNION {[1..k -> Elements] : k \in 0..MaxSeq}

ParseError(msg) == [kind |-> "Err", msg |-> msg, seq |-> <<>>, next |-> ""]

ParBranch(seq, next) == [kind |-> "Ok", msg |-> "", seq |-> seq, next |-> next]

MissingTag == ParseError("Missing the tag of the next rule")

ExtraElement == ParseError("Extra element after the rule tag specified at last")

NoVariant == ParseError("data did not match any variant of untagged enum Either")

\* visit_seq without the look at the element after the tag.
RECURSIVE visit_seq_NoExtraCheck(_, _, _)
visit_seq_NoExtraCheck(sv, i, seq) ==
    IF i > Len(sv) THEN MissingTag
    ELSE IF sv[i].kind = "Neither" THEN NoVariant
    ELSE IF sv[i].kind = "Action" THEN visit_seq_NoExtraCheck(sv, i + 1, Append(seq, sv[i].val))
    ELSE ParBranch(seq, sv[i].val)

\* visit_seq from the i-th element on, with the actions seq pushed so far:
\* actions are pushed until the first tag; the element after it, if there is
\* one, is deserialized too and makes the list fail.
RECURSIVE visit_seq(_, _, _)
visit_seq(sv, i, seq) ==
    IF i > Len(sv) THEN MissingTag
    ELSE IF sv[i].kind = "Neither" THEN NoVariant
    ELSE IF sv[i].kind = "Action" THEN visit_seq(sv, i + 1, Append(seq, sv[i].val))
    ELSE IF i + 1 > Len(sv) THEN ParBranch(seq, sv[i].val)
    ELSE IF sv[i + 1].kind = "Neither" THEN NoVariant
    ELSE ExtraElement

\* ------------------------------------------------------------------------
\* State
\* ------------------------------------------------------------------------
VARIABLES
    rules,      \* the Vec<Rule> given to Table::new
    pc,         \* "input", "built", "routing", "returned" (Ok), "failed" (Err),
                \* "panicked" (rule lookup), "panicked_question" (first question)
    result,     \* what Table::new returned: [res, table]
    tag,        \* Table::route: the tag of the current rule
    hops,       \* Table::route: rules entered so far
    resp,       \* Table::route: State.resp, the upstream of the last Query
    query,      \* Table::route: State.query
    events,     \* what the route call has done so far
    mock,       \* the matchers and upstreams
    peer,       \* a second route call on the same table: [pc, query, tag, resp]
    hosts,      \* Hosts: the payload of every node of the trie, by its path
    entries,    \* the last payload inserted for each name
    asked,      \* the name of the Hosts::matches call made since the last insert
    answer,     \* what that call returned
    call,       \* the last operation on the hosts table, with the trie before it
    phase,      \* the hosts value of a script: "building", "sealed", "panicked"
    sealedTrie, \* the trie as it was when the hosts value was sealed
    arg,        \* the input of a pure function
    ret         \* what the function returned for it

tvars == <<rules, pc, result, tag, hops, resp, query, events, mock, peer>>

hvars == <<hosts, entries, asked, answer, call>>

svars == <<phase, sealedTrie>>

pvars == <<arg, ret>>

vars == <<tvars, hvars, svars, pvars>>

NoResult == [res |-> OkUnit, table |-> NoTable]

NoQuery == [questions |-> <<>>]

IdlePeer == [pc |-> "idle", query |-> NoQuery, tag |-> "start", resp |-> "empty"]

InitRoute ==
    /\ pc = "input"
    /\ result = NoResult
    /\ tag = "start"
    /\ hops = 0
    /\ resp = "empty"
    /\ query = NoQuery
    /\ events = <<>>
    /\ peer = IdlePeer

\* A call: the operation, the trie before it, its arguments, its outcome.
Call(op, before, args, out) ==
    [op |-> op, before |-> before, args |-> args, out |-> out]

NoCall == Call("none", NewTrie, <<>>, Outcome("Ok", <<>>))

InitHostsIdle ==
    /\ hosts = NewTrie
    /\ entries = <<>>
    /\ asked = <<>>
    /\ answer = "none"
    /\ call = NoCall
    /\ phase = "building"
    /\ sealedTrie = NewTrie

NoRet == [fn |-> "none", out |-> Returned("Ok", <<>>)]

InitPureIdle ==
    /\ arg = <<>>
    /\ ret = NoRet

Init ==
    /\ \E k \in 0..MaxRules : rules \in [1..k -> RulesOver(RuleTags, NextTags, {<<>>})]
    /\ mock = FreeMock
    /\ InitRoute
    /\ InitHostsIdle
    /\ InitPureIdle

InitUp ==
    /\ \E k \in 0..MaxUpRules : rules \in [1..k -> RulesOver(UpRuleTags, UpNextTags, UpActions)]
    /\ mock = FreeMock
    /\ InitRoute
    /\ InitHostsIdle
    /\ InitPureIdle

\* Table::new(rules)
New ==
    /\ pc = "input"
    /\ result' = TableNew(rules)
    /\ pc' = "built"
    /\ UNCHANGED <<rules, tag, hops, resp, query, events, mock, peer>>
    /\ UNCHANGED <<hvars, svars, pvars>>

\* Table::route with the State of the previous call kept.
RouteStart_KeepState(q) ==
    /\ pc \in {"built", "returned", "failed"}
    /\ result.res.kind = "Ok"
    /\ query' = q
    /\ pc' = IF q.questions = <<>> THEN "panicked_question" ELSE "routing"
    /\ tag' = "start"
    /\ hops' = 0
    /\ resp' = resp
    /\ events' = <<>>
    /\ UNCHANGED <<rules, result, mock, peer>>
    /\ UNCHANGED <<hvars, svars, pvars>>

\* Table::route, up to the loop: the name of the first question is taken
\* (unwrap: a panic when the question section is empty), the State is
\* built with the default response and the tag is "start".  A table can be
\* routed any number of times.
RouteStart(q) ==
    /\ pc \in {"built", "returned", "failed"}
    /\ result.res.kind = "Ok"
    /\ query' = q
    /\ pc' = IF q.questions = <<>> THEN "panicked_question" ELSE "routing"
    /\ tag' = "start"
    /\ hops' = 0
    /\ resp' = "empty"
    /\ events' = <<>>
    /\ UNCHANGED <<rules, result, mock, peer>>
    /\ UNCHANGED <<hvars, svars, pvars>>

\* One iteration of the loop of Table::route that tries the failed rule
\* again instead of returning the error.
RouteStep_RetryOnError(matched) ==
    /\ pc = "routing"
    /\ tag # "end"
    /\ IF tag \in DOMAIN result.table.rules
       THEN LET r == result.table.rules[tag]
                branch == IF matched THEN r.on_match ELSE r.no_match
            IN  \E failAt \in 0..Len(branch.actions) :
                    /\ MockAllows(mock, r, query, matched, failAt)
                    /\ LET out == RuleRoute(r, resp, matched, failAt)
                       IN  /\ resp' = out.resp
                           /\ events' = events \o out.events
                           /\ hops' = hops + 1
                           /\ pc' = pc
                           /\ tag' = IF out.ok THEN out.next ELSE tag
       ELSE /\ pc' = "panicked"
            /\ UNCHANGED <<tag, hops, resp, events>>
    /\ UNCHANGED <<rules, result, query, mock, peer>>
    /\ UNCHANGED <<hvars, svars, pvars>>

\* One iteration of the loop of Table::route on a State that all calls on
\* the table share: the response it works on is the one the other call left.
RouteStep_SharedState(matched) ==
    /\ pc = "routing"
    /\ tag # "end"
    /\ IF tag \in DOMAIN result.table.rules
       THEN LET r == result.table.rules[tag]
                branch == IF matched THEN r.on_match ELSE r.no_match
            IN  \E failAt \in 0..Len(branch.actions) :
                    /\ MockAllows(mock, r, query, matched, failAt)
                    /\ LET out == RuleRoute(r, peer.resp, matched, failAt)
                       IN  /\ resp' = out.resp
                           /\ events' = events \o out.events
                           /\ hops' = hops + 1
                           /\ IF out.ok
                              THEN /\ tag' = out.next
                                   /\ pc' = pc
                              ELSE /\ tag' = tag
                                   /\ pc' = "failed"
       ELSE /\ pc' = "panicked"
            /\ UNCHANGED <<tag, hops, resp, events>>
    /\ UNCHANGED <<rules, result, query, mock, peer>>
    /\ UNCHANGED <<hvars, svars, pvars>>

\* One iteration of the loop of Table::route: the current rule is looked up
\* (unwrap: a panic when it is missing) and routed; an error is returned at
\* once, otherwise the tag it returns is the next rule.
RouteStep(matched) ==
    /\ pc = "routing"
    /\ tag # "end"
    /\ IF tag \in DOMAIN result.table.rules
       THEN LET r == result.table.rules[tag]
                branch == IF matched THEN r.on_match ELSE r.no_match
            IN  \E failAt \in 0..Len(branch.actions) :
                    /\ MockAllows(mock, r, query, matched, failAt)
                    /\ LET out == RuleRoute(r, resp, matched, failAt)
                       IN  /\ resp' = out.resp
                           /\ events' = events \o out.events
                           /\ hops' = hops + 1
                           /\ IF out.ok
                              THEN /\ tag' = out.next
                                   /\ pc' = pc
                              ELSE /\ tag' = tag
                                   /\ pc' = "failed"
       ELSE /\ pc' = "panicked"
            /\ UNCHANGED <<tag, hops, resp, events>>
    /\ UNCHANGED <<rules, result, query, mock, peer>>
    /\ UNCHANGED <<hvars, svars, pvars>>

\* Table::route, after the loop: Ok(s.resp)
RouteReturn ==
    /\ pc = "routing"
    /\ tag = "end"
    /\ pc' = "returned"
    /\ UNCHANGED <<rules, result, tag, hops, resp, query, events, mock, peer>>
    /\ UNCHANGED <<hvars, svars, pvars>>

\* The same three steps of Table::route for a second call on the same
\* table, which runs at any time once the table is built.
PeerStart(q) ==
    /\ pc # "input"
    /\ result.res.kind = "Ok"
    /\ peer.pc \in {"idle", "returned", "failed"}
    /\ peer' = [pc    |-> IF q.questions = <<>> THEN "panicked_question" ELSE "routing",
                query |-> q,
                tag   |-> "start",
                resp  |-> "empty"]
    /\ UNCHANGED <<rules, pc, result, tag, hops, resp, query, events, mock>>
    /\ UNCHANGED <<hvars, svars, pvars>>

PeerStep(matched) ==
    /\ peer.pc = "routing"
    /\ peer.tag # "end"
    /\ IF peer.tag \in DOMAIN result.table.rules
       THEN LET r == result.table.rules[peer.tag]
                branch == IF matched THEN r.on_match ELSE r.no_match
            IN  \E failAt \in 0..Len(branch.actions) :
                    /\ MockAllows(mock, r, peer.query, matched, failAt)
                    /\ LET out == RuleRoute(r, peer.resp, matched, failAt)
                       IN  peer' = [pc    |-> IF out.ok THEN "routing" ELSE "failed",
                                    query |-> peer.query,
                                    tag   |-> IF out.ok THEN out.next ELSE peer.tag,
                                    resp  |-> out.resp]
       ELSE peer' = [peer EXCEPT !.pc = "panicked"]
    /\ UNCHANGED <<rules, pc, result, tag, hops, resp, query, events, mock>>
    /\ UNCHANGED <<hvars, svars, pvars>>

PeerReturn ==
    /\ peer.pc = "routing"
    /\ peer.tag = "end"
    /\ peer' = [peer EXCEPT !.pc = "returned"]
    /\ UNCHANGED <<rules, pc, result, tag, hops, resp, query, events, mock>>
    /\ UNCHANGED <<hvars, svars, pvars>>

\* Hosts::insert(domain, ip)
Insert(domain, ip) ==
    /\ domain \in DOMAIN entries \/ Cardinality(DOMAIN entries) < MaxEntries
    /\ hosts' = insert(hosts, domain, ip)
    /\ entries' = [n \in DOMAIN entries \cup {domain} |->
                       IF n = domain THEN ip ELSE entries[n]]
    /\ asked' = <<>>
    /\ answer' = "none"
    /\ call' = Call("insert", hosts, <<domain, ip>>, Outcome("Ok", <<>>))
    /\ UNCHANGED <<tvars, svars, pvars>>

\* Hosts::matches(domain)
Lookup(domain) ==
    /\ asked' = <<domain>>
    /\ answer' = matches(hosts, domain)
    /\ call' = Call("matches", hosts, <<domain>>, Outcome("Ok", <<>>))
    /\ UNCHANGED <<hosts, entries>>
    /\ UNCHANGED <<tvars, svars, pvars>>

\* The entries after the inserts of cfg.
RECURSIVE EntriesAfter(_, _, _)
EntriesAfter(e, cfg, i) ==
    IF i > Len(cfg) THEN e
    ELSE EntriesAfter([n \in DOMAIN e \cup {cfg[i][1]} |->
                          IF n = cfg[i][1] THEN cfg[i][2] ELSE e[n]], cfg, i + 1)

\* hosts.add_file(path) of the script module
AddFile(readable, list) ==
    /\ phase # "panicked"
    /\ Fn(TypeOf(phase), "add_file") \in ModuleFns
    /\ LET r == add_file(hosts, readable, list)
       IN  /\ hosts' = r.hosts
           /\ entries' = EntriesAfter(entries, r.out.cfg, 1)
           /\ call' = Call("add_file", hosts, <<readable, list>>, r.out)
           /\ phase' = IF r.out.kind = "Panic" THEN "panicked" ELSE phase
    /\ UNCHANGED <<asked, answer, sealedTrie>>
    /\ UNCHANGED <<tvars, pvars>>

\* hosts.add_host(host, ip, is_server) of the script module
AddHost(s, ip, is_server) ==
    /\ phase # "panicked"
    /\ Fn(TypeOf(phase), "add_host") \in ModuleFns
    /\ LET r == add_host(hosts, s, ip, is_server)
       IN  /\ hosts' = r.hosts
           /\ entries' = EntriesAfter(entries, r.out.cfg, 1)
           /\ call' = Call("add_host", hosts, <<s, ip, is_server>>, r.out)
           /\ phase' = IF r.out.kind = "Panic" THEN "panicked" ELSE phase
    /\ UNCHANGED <<asked, answer, sealedTrie>>
    /\ UNCHANGED <<tvars, pvars>>

\* hosts.seal(): the value becomes a SealedHosts
Seal ==
    /\ phase = "building"
    /\ Fn(TypeOf(phase), "seal") \in ModuleFns
    /\ phase' = "sealed"
    /\ sealedTrie' = hosts
    /\ call' = Call("seal", hosts, <<>>, Outcome("Ok", <<>>))
    /\ UNCHANGED <<hosts, entries, asked, answer>>
    /\ UNCHANGED <<tvars, pvars>>

\* hosts.reslove(qname) of the script module: Hosts::reslove
Reslove(qname) ==
    /\ phase # "panicked"
    /\ Fn(TypeOf(phase), "reslove") \in ModuleFns
    /\ asked' = <<qname>>
    /\ answer' = matches(hosts, qname)
    /\ call' = Call("reslove", hosts, <<qname>>, Outcome("Ok", <<>>))
    /\ UNCHANGED <<hosts, entries, phase, sealedTrie>>
    /\ UNCHANGED <<tvars, pvars>>

\* fast_answer(query, a, b, c, d) on the octets of an IPv4 address
FastAnswer ==
    /\ arg.ip.family = "v4"
    /\ ret' = [fn  |-> "fast_answer",
               out |-> fast_answer(arg.query, arg.ip.addr[1], arg.ip.addr[2],
                                   arg.ip.addr[3], arg.ip.addr[4])]
    /\ UNCHANGED <<arg, tvars, hvars, svars>>

\* fast_answer_ip(query, ip)
FastAnswerIp ==
    /\ ret' = [fn |-> "fast_answer_ip", out |-> fast_answer_ip(arg.query, arg.ip)]
    /\ UNCHANGED <<arg, tvars, hvars, svars>>

\* fast_answer(msg, a, b, c, d) called from a script
ScriptFastAnswer ==
    /\ ret' = [fn  |-> "utils_fast_answer",
               out |-> UtilsFastAnswer(arg.query, arg.ints[1], arg.ints[2],
                                       arg.ints[3], arg.ints[4])]
    /\ UNCHANGED <<arg, tvars, hvars, svars>>

\* ParBranch::deserialize
Deserialize ==
    /\ ret' = [fn |-> "visit_seq", out |-> visit_seq(arg, 1, <<>>)]
    /\ UNCHANGED <<arg, tvars, hvars, svars>>

\* table.validate(None) on the table Table::new returned
Validate ==
    /\ pc = "built"
    /\ result.res.kind = "Ok"
    /\ ret' = [fn |-> "validate", out |-> validate(result.table)]
    /\ UNCHANGED <<arg, tvars, hvars, svars>>

\* validate on a table that holds the rule map as it is collected from the
\* rule list, whether Table::new accepts that list or not.
ValidateMap ==
    /\ pc = "input"
    /\ CollectRules(rules, 1, EmptyMap).res.kind = "Ok"
    /\ ret' = [fn  |-> "validate_map",
               out |-> validate([rules          |-> CollectRules(rules, 1, EmptyMap).table,
                                 used_upstreams |-> {}])]
    /\ UNCHANGED <<arg, tvars, hvars, svars>>

Next ==
    \/ New
    \/ \E q \in Queries : RouteStart(q)
    \/ \E matched \in BOOLEAN : RouteStep(matched)
    \/ RouteReturn

Spec == Init /\ [][Next]_vars

SpecUp == InitUp /\ [][Next]_vars

\* Table::new and Table::validate on the same rules.
NextValidate ==
    \/ New
    \/ Validate
    \/ ValidateMap

SpecValidate == Init /\ [][NextValidate]_vars

\* Two route calls on one table, with deterministic matchers and upstreams.
InitPar ==
    /\ \E k \in 0..MaxParRules : rules \in [1..k -> RulesOver(ParRuleTags, ParNextTags, ParActions)]
    /\ \E any \in SUBSET ParRuleTags, failing \in SUBSET {"up"} : mock = FixedMock(any, failing)
    /\ InitRoute
    /\ InitHostsIdle
    /\ InitPureIdle

NextPar ==
    \/ Next
    \/ \E q \in Queries : PeerStart(q)
    \/ \E matched \in BOOLEAN : PeerStep(matched)
    \/ PeerReturn

SpecPar == InitPar /\ [][NextPar]_vars

\* A hosts table filled by inserts and asked by lookups.
InitHosts ==
    /\ rules = <<>>
    /\ mock = FreeMock
    /\ InitRoute
    /\ InitHostsIdle
    /\ InitPureIdle

NextHosts ==
    \/ \E domain \in Names, ip \in Ips : Insert(domain, Subdomain(ip))
    \/ \E domain \in Names, ip \in Ips : Insert(domain, Server(ip))
    \/ \E domain \in Names : Lookup(domain)

SpecHosts == InitHosts /\ [][NextHosts]_vars

\* A hosts value built by a script, sealed and then asked.
QueryNames == ScriptNames \cup {<<"x", "y", "x">>, <<"y">>}

NextScript ==
    \/ \E list \in Files : AddFile(TRUE, list)
    \/ AddFile(FALSE, <<>>)
    \/ \E s \in {NameField(n) : n \in ScriptNames} \cup {BadNameField},
          ip \in IpTexts, is_server \in BOOLEAN : AddHost(s, ip, is_server)
    \/ Seal
    \/ \E qname \in QueryNames : Reslove(qname)

SpecScript == InitHosts /\ [][NextScript]_vars

\* The answer builders applied to a query and an address.
InitAnswer ==
    /\ rules = <<>>
    /\ mock = FreeMock
    /\ InitRoute
    /\ InitHostsIdle
    /\ arg \in [query : QueryMessages, ip : IpAddrs]
    /\ ret = NoRet

NextAnswer ==
    \/ FastAnswer
    \/ FastAnswerIp

SpecAnswer == InitAnswer /\ [][NextAnswer]_vars

\* The fast_answer function of the script module applied to a query and
\* four integers.
InitBinding ==
    /\ rules = <<>>
    /\ mock = FreeMock
    /\ InitRoute
    /\ InitHostsIdle
    /\ arg \in [query : QueryMessages, ints : [1..4 -> I64Samples]]
    /\ ret = NoRet

NextBinding == ScriptFastAnswer

SpecBinding == InitBinding /\ [][NextBinding]_vars

\* A branch list deserialized.
InitBranch ==
    /\ rules = <<>>
    /\ mock = FreeMock
    /\ InitRoute
    /\ InitHostsIdle
    /\ arg \in BranchLists
    /\ ret = NoRet

NextBranch == Deserialize

SpecBranch == InitBranch /\ [][NextBranch]_vars
\* ------------------------------------------------------------------------
\* The rule graph, defined from the rules alone
\* ------------------------------------------------------------------------
\* Nodes are rule tags; a rule has an edge to the next tag of each of its
\* branches.  `end` is the terminator: a next of `end` is no edge.
RuleSet(rs) == {rs[i] : i \in DOMAIN rs}

MapRules(table) == {table[k] : k \in DOMAIN table}

TagsOf(G) == {r.tag : r \in G}

NoDuplicateTags(rs) ==
    \A i, j \in DOMAIN rs : rs[i].tag = rs[j].tag => i = j

NextsOf(G, t) ==
    {r.on_match.next : r \in {q \in G : q.tag = t}}
        \cup {r.no_match.next : r \in {q \in G : q.tag = t}}

Succ(G, t) == NextsOf(G, t) \ {"end"}

RECURSIVE Closure(_, _)
Closure(G, S) ==
    LET S2 == S \cup UNION {Succ(G, t) : t \in S}
    IN  IF S2 = S THEN S ELSE Closure(G, S2)

\* Tags reachable from start (defined or not), and the rules among them.
ReachableTags(G) == Closure(G, {"start"})

ReachableRules(G) == {r \in G : r.tag \in ReachableTags(G)}

OnCycle(G, t) == t \in Closure(G, Succ(G, t))

HasReachableCycle(G) ==
    \E t \in ReachableTags(G) \cap TagsOf(G) : OnCycle(G, t)

HasCycle(G) == \E t \in TagsOf(G) : OnCycle(G, t)

AllNextsDefined(G) ==
    \A r \in G : {r.on_match.next, r.no_match.next} \subseteq TagsOf(G) \cup {"end"}

Built == pc # "input"

Accepted == Built /\ result.res.kind = "Ok"

\* ------------------------------------------------------------------------
\* C1: on a table accepted by Table::new every route call terminates,
\* whatever the matchers answer: it enters at most |rules| rules before the
\* tag is `end`, and the next edges reachable from `start` have no cycle.
\* ------------------------------------------------------------------------
C1_RouteEntersAtMostAllRules ==
    pc \in {"routing", "returned", "panicked"} =>
        LET n == Cardinality(DOMAIN result.table.rules)
        IN  /\ hops <= n
            /\ (tag # "end" => hops < n)
            /\ ~HasReachableCycle(MapRules(result.table.rules))

C1_Witness ==
    /\ pc = "returned"
    /\ tag = "end"
    /\ hops = 3
    /\ Cardinality(DOMAIN result.table.rules) = 3

\* ------------------------------------------------------------------------
\* C2: in every table accepted by Table::new `start` is a rule, every next
\* is `end` or a rule, and every rule is reachable from `start`.
\* ------------------------------------------------------------------------
C2_AcceptedTableClosedAndConnected ==
    Accepted =>
        LET G == MapRules(result.table.rules)
        IN  /\ "start" \in DOMAIN result.table.rules
            /\ \A k \in DOMAIN result.table.rules : result.table.rules[k].tag = k
            /\ AllNextsDefined(G)
            /\ TagsOf(G) \subseteq ReachableTags(G)

C2_Witness ==
    /\ Accepted
    /\ DOMAIN result.table.rules = {"start", "a", "b"}
    /\ result.table.rules["start"].on_match.next = "a"
    /\ result.table.rules["a"].no_match.next = "b"
    /\ result.table.rules["b"].on_match.next = "end"

\* Every tag reachable from start, start included, has a rule.
ReachableTagsDefined(G) == ReachableTags(G) \subseteq TagsOf(G)

HasUnreachableRule(G) == ~(TagsOf(G) \subseteq ReachableTags(G))

\* ------------------------------------------------------------------------
\* C3 as stated: Table::new answers RuleRecursion for every rule list whose
\* graph has a cycle reachable from `start`.
\* ------------------------------------------------------------------------
C3_Original ==
    (Built /\ HasReachableCycle(RuleSet(rules))) =>
        result.res.kind = "RuleRecursion"

\* C3 amended: Table::new rejects every rule list whose graph has a cycle
\* reachable from `start`, with MultipleDef, UndefinedTag or RuleRecursion;
\* the error is RuleRecursion when the list has no duplicate tags and every
\* tag reachable from `start` is defined.
C3_CycleRejected ==
    (Built /\ HasReachableCycle(RuleSet(rules))) =>
        /\ result.res.kind \in {"MultipleDef", "UndefinedTag", "RuleRecursion"}
        /\ (NoDuplicateTags(rules) /\ ReachableTagsDefined(RuleSet(rules)))
               => result.res.kind = "RuleRecursion"

C3_Witness ==
    /\ Built
    /\ Len(rules) = 3
    /\ NoDuplicateTags(rules)
    /\ ReachableTagsDefined(RuleSet(rules))
    /\ ~OnCycle(RuleSet(rules), "start")
    /\ OnCycle(RuleSet(rules), "b")
    /\ result.res.kind = "RuleRecursion"

\* ------------------------------------------------------------------------
\* C4 as stated: Table::new answers UnusedRules for every rule list with a
\* rule that is not reachable from `start`.
\* ------------------------------------------------------------------------
C4_Original ==
    (Built /\ HasUnreachableRule(RuleSet(rules))) =>
        result.res.kind = "UnusedRules"

\* C4 amended: Table::new rejects every rule list with a rule that is not
\* reachable from `start`; the error is UnusedRules when the list has no
\* duplicate tags, every tag reachable from `start` (start included) is
\* defined and no cycle is reachable from `start`.
C4_UnreachableRejected ==
    (Built /\ HasUnreachableRule(RuleSet(rules))) =>
        /\ result.res.kind # "Ok"
        /\ (/\ NoDuplicateTags(rules)
            /\ ReachableTagsDefined(RuleSet(rules))
            /\ ~HasReachableCycle(RuleSet(rules)))
               => result.res.kind = "UnusedRules"

C4_Witness ==
    /\ Built
    /\ Len(rules) = 3
    /\ NoDuplicateTags(rules)
    /\ TagsOf(RuleSet(rules)) = {"start", "a", "b"}
    /\ ReachableTags(RuleSet(rules)) = {"start", "a"}
    /\ result.res.kind = "UnusedRules"

\* ------------------------------------------------------------------------
\* C5: Table::new accepts every rule list without duplicate tags that
\* defines `start`, names only `end` or defined tags, has no cycle and has
\* every rule reachable; a rule that is the next of several branches or is
\* reached along several paths is not a recursion.
\* ------------------------------------------------------------------------
C5_WellFormedAccepted ==
    (/\ Built
     /\ NoDuplicateTags(rules)
     /\ "start" \in TagsOf(RuleSet(rules))
     /\ AllNextsDefined(RuleSet(rules))
     /\ ~HasCycle(RuleSet(rules))
     /\ ~HasUnreachableRule(RuleSet(rules)))
        => /\ result.res = OkUnit
           /\ MapRules(result.table.rules) = RuleSet(rules)

\* start goes to a and b, a goes to b: b is reached along two paths.
C5_Witness ==
    /\ Accepted
    /\ DOMAIN result.table.rules = {"start", "a", "b"}
    /\ NextsOf(RuleSet(rules), "start") = {"a", "b"}
    /\ NextsOf(RuleSet(rules), "a") = {"b"}
    /\ NextsOf(RuleSet(rules), "b") = {"end"}

\* ------------------------------------------------------------------------
\* C8: for every rule list in which two rules share a tag Table::new
\* answers MultipleDef(t), t being the first tag in list order that is seen
\* a second time, whatever else is wrong with the list.
\* ------------------------------------------------------------------------
FirstRepeated(rs) ==
    LET again == {j \in DOMAIN rs : \E i \in 1..(j - 1) : rs[i].tag = rs[j].tag}
    IN  rs[CHOOSE j \in again : \A k \in again : j <= k].tag

C8_DuplicateTagReported ==
    (Built /\ ~NoDuplicateTags(rules)) =>
        result.res = MultipleDef(FirstRepeated(rules))

\* A list with a repeated tag that also lacks start and names itself.
C8_Witness ==
    /\ Built
    /\ Len(rules) = 3
    /\ rules[1].tag = "a"
    /\ rules[2].tag = "b"
    /\ rules[3].tag = "b"
    /\ rules[2].on_match.next = "b"
    /\ result.res = MultipleDef("b")

\* ------------------------------------------------------------------------
\* The depth-first walk, defined from the rules alone
\* ------------------------------------------------------------------------
\* A walk is a sequence of branch choices from start: 1 takes on_match,
\* 2 takes no_match.  The walks of the depth-first order are the walks
\* whose rules are all defined and pairwise distinct; they are visited in
\* lexicographic order, on_match before no_match.
Walks(n) == UNION {[1..k -> {1, 2}] : k \in 0..n}

RuleOf(G, t) == CHOOSE r \in G : r.tag = t

\* The tags along the walk: start, then the next of each chosen branch.  A
\* tag that is `end` or has no rule has no branches; it is followed by `end`.
RECURSIVE Trail(_, _, _)
Trail(G, p, k) ==
    IF k = 0 THEN <<"start">>
    ELSE LET before == Trail(G, p, k - 1)
             prev   == before[k]
         IN  Append(before,
                    IF prev \in TagsOf(G) \ {"end"}
                    THEN (IF p[k] = 1 THEN RuleOf(G, prev).on_match.next
                                      ELSE RuleOf(G, prev).no_match.next)
                    ELSE "end")

\* The tag the walk arrives at.
WalkTarget(G, p) == Trail(G, p, Len(p))[Len(p) + 1]

\* The rules entered before the last step of the walk: the current path.
OnPath(G, p) == {Trail(G, p, Len(p))[i] : i \in 1..Len(p)}

\* The rules of the current path are defined and distinct, and no next of
\* `end` was followed.
LiveWalk(G, p) ==
    LET t == Trail(G, p, Len(p))
    IN  /\ \A i \in 1..Len(p) : t[i] \in TagsOf(G)
        /\ \A i \in 2..Len(p) : t[i] # "end"
        /\ \A i, j \in 1..Len(p) : t[i] = t[j] => i = j

MeetsUndefined(G, p) ==
    /\ LiveWalk(G, p)
    /\ (Len(p) > 0 => WalkTarget(G, p) # "end")
    /\ WalkTarget(G, p) \notin TagsOf(G)

ReEnters(G, p) ==
    /\ LiveWalk(G, p)
    /\ Len(p) > 0
    /\ WalkTarget(G, p) # "end"
    /\ WalkTarget(G, p) \in OnPath(G, p)

LexLess(p, q) ==
    \/ Len(p) < Len(q) /\ \A i \in 1..Len(p) : p[i] = q[i]
    \/ \E i \in 1..Len(p) :
          /\ i <= Len(q)
          /\ p[i] < q[i]
          /\ \A j \in 1..(i - 1) : p[j] = q[j]

DefectWalks(G) ==
    {p \in Walks(Cardinality(G)) : MeetsUndefined(G, p) \/ ReEnters(G, p)}

FirstOf(D) == CHOOSE p \in D : \A q \in D : q = p \/ LexLess(p, q)

FirstDefect(G) == FirstOf(DefectWalks(G))

\* ------------------------------------------------------------------------
\* C7: for a rule list without duplicate tags, Table::new answers
\* UndefinedTag("start") when no rule is tagged `start`, and otherwise
\* UndefinedTag(t) when the depth-first walk meets the undefined next t
\* before it re-enters a rule of the current path.
\* ------------------------------------------------------------------------
C7_UndefinedTagReported ==
    (Built /\ NoDuplicateTags(rules)) =>
        LET G == RuleSet(rules)
            D == DefectWalks(G)
            f == FirstOf(D)
        IN  /\ "start" \notin TagsOf(G) => result.res = UndefinedTag("start")
            /\ ("start" \in TagsOf(G) /\ D # {} /\ MeetsUndefined(G, f))
                   => result.res = UndefinedTag(WalkTarget(G, f))

\* An undefined tag in the else branch of a, met before the cycle of b.
C7_Witness ==
    /\ Built
    /\ NoDuplicateTags(rules)
    /\ Len(rules) = 3
    /\ "start" \in TagsOf(RuleSet(rules))
    /\ HasReachableCycle(RuleSet(rules))
    /\ FirstDefect(RuleSet(rules)) = <<1, 2>>
    /\ result.res.kind = "UndefinedTag"
    /\ result.res.label # "start"

\* ------------------------------------------------------------------------
\* C9: when a rule list has no duplicate tags, defines `start` and every
\* tag it names, and has a cycle reachable from `start`, Table::new answers
\* RuleRecursion(t), t being the first rule the depth-first walk re-enters
\* while it is on the current path; for the single rule start whose else
\* branch goes to start the answer is RuleRecursion("start").
\* ------------------------------------------------------------------------
C9_FirstReEnteredRuleReported ==
    (/\ Built
     /\ NoDuplicateTags(rules)
     /\ "start" \in TagsOf(RuleSet(rules))
     /\ AllNextsDefined(RuleSet(rules))
     /\ HasReachableCycle(RuleSet(rules)))
        => LET G == RuleSet(rules)
               D == DefectWalks(G)
               f == FirstOf(D)
           IN  /\ D # {}
               /\ ReEnters(G, f)
               /\ result.res = RuleRecursion(WalkTarget(G, f))
               /\ (G = {Rule("start", Branch(<<>>, "end"), Branch(<<>>, "start"))}
                      => result.res = RuleRecursion("start"))

\* The cycle found first is not the one through start.
C9_Witness ==
    /\ Built
    /\ NoDuplicateTags(rules)
    /\ Len(rules) = 3
    /\ AllNextsDefined(RuleSet(rules))
    /\ OnCycle(RuleSet(rules), "start")
    /\ RuleOf(RuleSet(rules), "start").on_match.next = "a"
    /\ result.res = RuleRecursion("b")

\* ------------------------------------------------------------------------
\* C6: when a rule list has no duplicate tags, every tag reachable from
\* `start` defined and no cycle reachable from `start`, but has unreachable
\* rules, Table::new answers UnusedRules(S), S being exactly the tags of the
\* rules not reachable through next edges; the upstream named by a Query
\* action is no reference to the rule of the same tag.
\* ------------------------------------------------------------------------
C6_ExactUnusedSet ==
    (/\ Built
     /\ NoDuplicateTags(rules)
     /\ ReachableTagsDefined(RuleSet(rules))
     /\ ~HasReachableCycle(RuleSet(rules))
     /\ HasUnreachableRule(RuleSet(rules)))
        => result.res =
               UnusedRules(TagsOf(RuleSet(rules)) \ ReachableTags(RuleSet(rules)))

\* start queries upstream "a" and ends; the rules a and b are not used.
C6_Witness ==
    /\ Built
    /\ NoDuplicateTags(rules)
    /\ Len(rules) = 3
    /\ RuleOf(RuleSet(rules), "start") =
           Rule("start", Branch(<<Query("a")>>, "end"), Branch(<<>>, "end"))
    /\ result.res = UnusedRules({"a", "b"})

\* ------------------------------------------------------------------------
\* C10: in every table accepted by Table::new, used_upstreams is the union,
\* over the rules reachable from `start`, of the upstreams named by the
\* actions of both branches.
\* ------------------------------------------------------------------------
QueryLabels(actions) ==
    {actions[i].upstream : i \in {j \in DOMAIN actions : actions[j].kind = "Query"}}

C10_UsedUpstreamsOfReachableRules ==
    Accepted =>
        result.table.used_upstreams =
            UNION {QueryLabels(r.on_match.actions) \cup QueryLabels(r.no_match.actions) :
                     r \in ReachableRules(RuleSet(rules))}

\* The upstreams come from the else branch of start and the then branch of a.
C10_Witness ==
    /\ Accepted
    /\ DOMAIN result.table.rules = {"start", "a"}
    /\ result.table.rules["start"].on_match.actions = <<>>
    /\ result.table.rules["start"].no_match.actions = <<Query("a")>>
    /\ result.table.rules["a"].on_match.actions = <<Query("up"), Query("a")>>
    /\ result.table.rules["a"].no_match.actions = <<>>
    /\ result.table.used_upstreams = {"a", "up"}

\* ------------------------------------------------------------------------
\* C11: a rule tagged "end" can never be reached, so a rule list that holds
\* one is never accepted, and no accepted table has a rule under the key
\* "end".
\* ------------------------------------------------------------------------
C11_NoAcceptedRuleTaggedEnd ==
    /\ Built /\ "end" \in TagsOf(RuleSet(rules)) => result.res.kind # "Ok"
    /\ Accepted => "end" \notin DOMAIN result.table.rules

\* A list without duplicates whose only defect is a rule tagged "end": it
\* is rejected with that rule as the unused one.
C11_Witness ==
    /\ Built
    /\ NoDuplicateTags(rules)
    /\ "end" \in TagsOf(RuleSet(rules))
    /\ result.res = UnusedRules({"end"})

\* ------------------------------------------------------------------------
\* The course of a route call, read off its events
\* ------------------------------------------------------------------------
IsMatchEvent(e) == e.ev = "match"

IsDoneEvent(e) == e.ev = "done"

\* The rules entered, in order, each with the outcome of its matcher.
PathOf(ev) == SelectSeq(ev, IsMatchEvent)

\* The branch an event belongs to, and the action it is about.
BranchOf(e) ==
    IF e.matched THEN result.table.rules[e.tag].on_match
                 ELSE result.table.rules[e.tag].no_match

ActionOf(e) == BranchOf(e).actions[e.idx]

\* The actions that were applied to the end, in order.
Applied(ev) ==
    LET done == SelectSeq(ev, IsDoneEvent)
    IN  [i \in 1..Len(done) |-> ActionOf(done[i])]

\* The actions of the chosen branches of a path, in order.
RECURSIVE PathActions(_)
PathActions(path) ==
    IF path = <<>> THEN <<>>
    ELSE BranchOf(Head(path)).actions \o PathActions(Tail(path))

\* The response a sequence of applied actions leaves: that of its last Query.
LastUpstream(actions) ==
    LET qs == {i \in 1..Len(actions) : actions[i].kind = "Query"}
    IN  IF qs = {} THEN "empty"
        ELSE actions[CHOOSE i \in qs : \A j \in qs : j <= i].upstream

\* ------------------------------------------------------------------------
\* C12: a route call starts at the rule `start`; at each rule it applies the
\* actions of the one branch its matcher chooses and moves to that branch's
\* next, until the tag is `end`; the response it returns is the one left by
\* the last applied action, and the empty default when no action on the path
\* writes one.
\* ------------------------------------------------------------------------
C12_RouteFollowsChosenBranches ==
    pc \in {"routing", "returned"} =>
        LET path == PathOf(events)
            n    == Len(path)
        IN  /\ n = hops
            /\ n > 0 => path[1].tag = "start"
            /\ \A i \in 1..(n - 1) : path[i + 1].tag = BranchOf(path[i]).next
            /\ tag = IF n = 0 THEN "start" ELSE BranchOf(path[n]).next
            /\ Applied(events) = PathActions(path)
            /\ resp = LastUpstream(PathActions(path))
            /\ pc = "returned" => tag = "end"

\* A call has returned after two rules, one that matched and one that did
\* not; the response is the one written at the first rule, the second rule's
\* chosen branch writes none while its other branch would have.
C12_Witness ==
    /\ pc = "returned"
    /\ Len(PathOf(events)) = 2
    /\ PathOf(events)[1].matched /\ ~PathOf(events)[2].matched
    /\ resp # "empty"
    /\ BranchOf(PathOf(events)[2]).actions = <<>>
    /\ result.table.rules[PathOf(events)[2].tag].on_match.actions # <<>>

\* ------------------------------------------------------------------------
\* C13: a route call on an accepted table never panics, whatever the query
\* message, one with an empty question section included.
\* ------------------------------------------------------------------------
C13_RouteNeverPanics ==
    pc \notin {"panicked", "panicked_question"}

\* ------------------------------------------------------------------------
\* C14: in every state of a route call on an accepted table the current tag
\* is `end` or the key of a rule, so the rule lookup never fails, whichever
\* branch each matcher selects.
\* ------------------------------------------------------------------------
C14_CurrentTagIsEndOrRule ==
    /\ pc = "routing" => tag = "end" \/ tag \in DOMAIN result.table.rules
    /\ pc # "panicked"

\* A call that has entered two rules, the second through a no_match branch,
\* and stands at a third rule.
C14_Witness ==
    /\ pc = "routing"
    /\ hops = 2
    /\ ~PathOf(events)[1].matched
    /\ tag \in DOMAIN result.table.rules

\* ------------------------------------------------------------------------
\* C15: when an action fails the route call returns the error at once: the
\* failure is the last thing the call does (no later action is started, no
\* further rule is entered) and the call ends with the error, not with a
\* response.
\* ------------------------------------------------------------------------
FailedAt(ev) == {i \in 1..Len(ev) : ev[i].ev = "fail"}

C15_ActionErrorEndsRoute ==
    /\ FailedAt(events) # {} =>
           /\ pc = "failed"
           /\ FailedAt(events) = {Len(events)}
    /\ pc = "failed" => FailedAt(events) # {}

\* The first action of a two-action branch failed, and the branch leads to
\* another rule: neither the second action nor that rule was started.
C15_Witness ==
    /\ pc = "failed"
    /\ LET e == events[Len(events)]
       IN  /\ e.ev = "fail"
           /\ e.idx = 1
           /\ Len(BranchOf(e).actions) = 2
           /\ BranchOf(e).next # "end"

\* ------------------------------------------------------------------------
\* C16: a route call is strictly sequential: an action that starts ends
\* before anything else happens, the actions of a branch start in their
\* declared order, and a rule is entered only when every action of the
\* branch before it has ended.
\* ------------------------------------------------------------------------
SameAction(e, f) == e.tag = f.tag /\ e.matched = f.matched /\ e.idx = f.idx

SameBranch(e, f) == e.tag = f.tag /\ e.matched = f.matched

C16_StrictlySequential ==
    \A i \in 1..Len(events) :
        LET e == events[i]
        IN  /\ e.ev = "start" =>
                /\ i < Len(events)
                /\ events[i + 1].ev \in {"done", "fail"}
                /\ SameAction(events[i + 1], e)
                /\ i > 1
                /\ SameBranch(events[i - 1], e)
                /\ IF e.idx = 1
                   THEN events[i - 1].ev = "match"
                   ELSE events[i - 1].ev = "done" /\ events[i - 1].idx = e.idx - 1
            /\ e.ev \in {"done", "fail"} =>
                /\ i > 1
                /\ events[i - 1].ev = "start"
                /\ SameAction(events[i - 1], e)
            /\ e.ev = "match" /\ i > 1 =>
                /\ events[i - 1].ev \in {"match", "done"}
                /\ events[i - 1].idx = Len(BranchOf(events[i - 1]).actions)

\* A rule was entered after both actions of the branch before it had ended.
C16_Witness ==
    \E i \in 2..Len(events) :
        /\ events[i].ev = "match"
        /\ events[i - 1].ev = "done"
        /\ events[i - 1].idx = 2

\* ------------------------------------------------------------------------
\* C17: a route call leaves the table as Table::new built it and shares no
\* state with other calls: with deterministic matchers and upstreams the
\* outcome of route(q) is the one a call running alone would give, whatever
\* calls ran before it and however another call on the same table is
\* interleaved with it.
\* ------------------------------------------------------------------------
\* The outcome of a call on query q that runs alone from tag t with the
\* response r0.
RECURSIVE SeqRoute(_, _, _)
SeqRoute(q, t, r0) ==
    IF t = "end" THEN [kind |-> "Ok", resp |-> r0]
    ELSE LET r      == result.table.rules[t]
             branch == IF MockMatches(mock, t, q) THEN r.on_match ELSE r.no_match
             left   == LastUpstream(branch.actions)
         IN  IF FirstFailing(mock, branch.actions, 1) # 0
             THEN [kind |-> "Err", resp |-> "empty"]
             ELSE SeqRoute(q, branch.next, IF left = "empty" THEN r0 ELSE left)

\* A call in state c (pc, query, tag, resp) agrees with the call alone.
AsAlone(c) ==
    /\ c.pc = "returned" \/ (c.pc = "routing" /\ c.tag = "end") =>
           SeqRoute(c.query, "start", "empty") = [kind |-> "Ok", resp |-> c.resp]
    /\ c.pc = "failed" => SeqRoute(c.query, "start", "empty").kind = "Err"

C17_RouteIsPureAndIsolated ==
    /\ Built => result = TableNew(rules)
    /\ Accepted =>
           /\ AsAlone([pc |-> pc, query |-> query, tag |-> tag, resp |-> resp])
           /\ AsAlone(peer)

\* Two calls on different queries overlap: one has left its last rule and
\* has not returned yet, the other is between two rules, and each holds a
\* response of its own.
C17_Witness ==
    /\ pc = "routing" /\ tag = "end"
    /\ peer.pc = "routing" /\ peer.tag = "a"
    /\ query # peer.query
    /\ resp # "empty" /\ peer.resp # "empty"
    /\ resp # peer.resp

\* ------------------------------------------------------------------------
\* The entries of a hosts table and the names they stand for
\* ------------------------------------------------------------------------
\* Name a is q or an ancestor of q: its labels end q's.
IsSuffix(a, q) ==
    /\ Len(a) <= Len(q)
    /\ SubSeq(q, Len(q) - Len(a) + 1, Len(q)) = a

\* The names with a Subdomain entry that are q or an ancestor of q.
SubAncestors(q) ==
    {n \in DOMAIN entries : entries[n].kind = "Subdomain" /\ IsSuffix(n, q)}

Deepest(S) == CHOOSE n \in S : \A m \in S : Len(m) <= Len(n)

OnlySubdomain == \A n \in DOMAIN entries : entries[n].kind = "Subdomain"

\* The entry for name n is one for q: an Exact (Server) entry for q itself,
\* or a Subdomain entry for q or an ancestor of q.
Applies(n, q) ==
    \/ entries[n].kind = "Server" /\ n = q
    \/ entries[n].kind = "Subdomain" /\ IsSuffix(n, q)

\* ------------------------------------------------------------------------
\* C18: in a table of Subdomain entries only, a lookup of q returns the ip
\* of the deepest entry whose name is q or an ancestor of q, also when the
\* walk passes nodes without payload or names inserted only for longer
\* entries.
\* ------------------------------------------------------------------------
C18_DeepestSubdomainWins ==
    asked # <<>> /\ OnlySubdomain /\ SubAncestors(asked[1]) # {} =>
        answer = entries[Deepest(SubAncestors(asked[1]))].ip

\* ------------------------------------------------------------------------
\* C19: a lookup of q in a table that holds an Exact entry for exactly q
\* returns that entry's ip, whatever Subdomain entries q's ancestors have.
\* With Subdomain y.x -> 1.2.3.4 and Exact x.y.x -> 9.9.9.9 (apple.com and
\* store.apple.com), x.y.x gives 9.9.9.9, y.y.x (www.apple.com) 1.2.3.4 and
\* y.y (apple.cn) nothing.
\* ------------------------------------------------------------------------
AppleCom == <<"y", "x">>

StoreAppleCom == <<"x", "y", "x">>

WwwAppleCom == <<"y", "y", "x">>

AppleCn == <<"y", "y">>

ShortCircuitTable ==
    /\ DOMAIN entries = {AppleCom, StoreAppleCom}
    /\ entries[AppleCom] = Subdomain("1.2.3.4")
    /\ entries[StoreAppleCom] = Server("9.9.9.9")

C19_ExactEntryWins ==
    asked # <<>> =>
        LET q == asked[1]
        IN  /\ q \in DOMAIN entries /\ entries[q].kind = "Server" =>
                   answer = entries[q].ip
            /\ ShortCircuitTable =>
                   /\ q = StoreAppleCom => answer = "9.9.9.9"
                   /\ q = WwwAppleCom => answer = "1.2.3.4"
                   /\ q = AppleCn => answer = "none"

\* The name asked has an Exact entry and its parent a Subdomain entry with
\* another ip.
C19_Witness ==
    /\ asked # <<>>
    /\ Len(asked[1]) >= 2
    /\ asked[1] \in DOMAIN entries
    /\ entries[asked[1]].kind = "Server"
    /\ Tail(asked[1]) \in DOMAIN entries
    /\ entries[Tail(asked[1])].kind = "Subdomain"
    /\ entries[Tail(asked[1])].ip # entries[asked[1]].ip
    /\ answer = entries[asked[1]].ip

\* ------------------------------------------------------------------------
\* C20: a lookup of q returns nothing if and only if the table has no entry
\* for q (Exact or Subdomain) and no Subdomain entry for an ancestor of q.
\* ------------------------------------------------------------------------
C20_NoneIffNoEntry ==
    asked # <<>> =>
        (answer = "none" <=> ~ \E n \in DOMAIN entries : Applies(n, asked[1]))

\* ------------------------------------------------------------------------
\* C21: when the table holds a Subdomain entry for a name s, a lookup of any
\* name that has s as a suffix returns an ip, whatever other entries the
\* table holds; a lookup of a name none of whose suffixes has an entry
\* returns nothing.
\* ------------------------------------------------------------------------
C21_SubdomainEntryCoversSubdomains ==
    asked # <<>> =>
        /\ SubAncestors(asked[1]) # {} => answer # "none"
        /\ (\A n \in DOMAIN entries : ~IsSuffix(n, asked[1])) => answer = "none"

\* ------------------------------------------------------------------------
\* C22: an Exact entry binds only its own name.  A lookup of a name q that
\* has no Exact entry of its own returns the ip of the deepest Subdomain
\* entry for q or an ancestor of q, or nothing: the ip of an Exact entry
\* for another name is never what makes the answer.
\* ------------------------------------------------------------------------
BestSubdomain(q) ==
    IF SubAncestors(q) = {} THEN "none"
    ELSE entries[Deepest(SubAncestors(q))].ip

HasExact(q) == q \in DOMAIN entries /\ entries[q].kind = "Server"

C22_ExactBindsOnlyItsName ==
    asked # <<>> /\ ~HasExact(asked[1]) =>
        answer \in {BestSubdomain(asked[1]), "none"}

\* The parent of the name asked has an Exact entry, and the lookup returned
\* another ip: that of a Subdomain entry further up.
C22_Witness ==
    /\ asked # <<>>
    /\ Len(asked[1]) >= 2
    /\ ~HasExact(asked[1])
    /\ HasExact(Tail(asked[1]))
    /\ answer # "none"
    /\ answer # entries[Tail(asked[1])].ip

\* ------------------------------------------------------------------------
\* The lines of a hosts file and the entries they stand for
\* ------------------------------------------------------------------------
\* A line that is to be ignored: empty, of whitespace only, a comment, or
\* with a character outside letters, digits, `.` and `-` in its name field.
Ignorable(line) ==
    \/ line.empty
    \/ line.fields = <<>>
    \/ ~line.fields[1].allowed

IsNameField(f) == f.allowed /\ f.name # BadName

\* A line `name ip` or `name !ip` whose address is of one of the families.
WellFormedIn(line, families) ==
    /\ ~line.empty
    /\ Len(line.fields) = 2
    /\ IsNameField(line.fields[1])
    /\ line.fields[2].ip.family \in families

WellFormed(line) == WellFormedIn(line, {"v4", "v6"})

WellFormed4(line) == WellFormedIn(line, {"v4"})

\* A line `name ip` whose address is no address.
MalformedIp(line) == WellFormedIn(line, {"bad"})

\* The entry of a well-formed line.
EntryOf(line) ==
    <<line.fields[1].name,
      IF line.fields[2].bang THEN Server(line.fields[2].ip.addr)
                             ELSE Subdomain(line.fields[2].ip.addr)>>

\* The entries of the well-formed lines of a file, in file order.
ExpectedCfg(list) ==
    LET wf == SelectSeq(list, WellFormed)
    IN  [i \in 1..Len(wf) |-> EntryOf(wf[i])]

\* The last call loaded the readable file whose lines all satisfy P.
Loaded(P(_)) ==
    /\ call.op = "add_file"
    /\ call.args[1]
    /\ \A i \in 1..Len(call.args[2]) : P(call.args[2][i])

LoadedAsExpected ==
    /\ call.out = Outcome("Ok", ExpectedCfg(call.args[2]))
    /\ hosts = InsertAll(call.before, ExpectedCfg(call.args[2]), 1)

\* ------------------------------------------------------------------------
\* C23: when a hosts file is loaded, its empty and whitespace-only lines,
\* its comment lines and its lines with a character outside letters,
\* digits, `.` and `-` in the name field contribute no entry and do not make
\* the load fail or abort; the well-formed lines are inserted.
\* ------------------------------------------------------------------------
IgnorableOrWellFormed4(line) == Ignorable(line) \/ WellFormed4(line)

C23_IgnoredLinesDoNotFailLoad ==
    Loaded(IgnorableOrWellFormed4) => LoadedAsExpected

\* ------------------------------------------------------------------------
\* C24: each well-formed line `name ip` of a hosts file yields exactly one
\* entry for name, Exact with the address after the `!` when the ip field
\* starts with `!` and Subdomain with the address otherwise; the entries
\* are inserted in file order.
\* ------------------------------------------------------------------------
C24_OneEntryPerWellFormedLine ==
    Loaded(WellFormed) =>
        /\ call.out.kind = "Ok"
        /\ Len(call.out.cfg) = Len(call.args[2])
        /\ \A i \in 1..Len(call.args[2]) : call.out.cfg[i] = EntryOf(call.args[2][i])
        /\ hosts = InsertAll(call.before, call.out.cfg, 1)

\* ------------------------------------------------------------------------
\* C25: a malformed ip, in a line of a file given to add_file or in the ip
\* argument of add_host, makes the operation return an error value, not
\* abort, and leaves the hosts table as it was.
\* ------------------------------------------------------------------------
WellFormed4OrMalformedIp(line) == WellFormed4(line) \/ MalformedIp(line)

HasMalformedIp ==
    \/ /\ call.op = "add_host"
       /\ IsNameField(call.args[1])
       /\ call.args[2].family = "bad"
    \/ /\ Loaded(WellFormed4OrMalformedIp)
       /\ \E i \in 1..Len(call.args[2]) : MalformedIp(call.args[2][i])

C25_MalformedIpIsAnError ==
    HasMalformedIp =>
        /\ call.out.kind = "Err"
        /\ hosts = call.before

\* ------------------------------------------------------------------------
\* C26: a hosts line or an add_host call whose ip is a valid IPv6 address is
\* accepted and stored as an entry with that address, as an IPv4 address is.
\* ------------------------------------------------------------------------
C26_Ipv6Accepted ==
    /\ /\ call.op = "add_host"
       /\ IsNameField(call.args[1])
       /\ call.args[2].family = "v6"
       => /\ call.out.kind = "Ok"
          /\ hosts = insert(call.before, call.args[1].name,
                            IF call.args[3] THEN Server(call.args[2].addr)
                                            ELSE Subdomain(call.args[2].addr))
    /\ /\ Loaded(WellFormed)
       /\ \E i \in 1..Len(call.args[2]) : call.args[2][i].fields[2].ip.family = "v6"
       => LoadedAsExpected

\* ------------------------------------------------------------------------
\* C27: for a query with a question, fast_answer and fast_answer_ip return
\* a NoError response to the query with exactly one answer record: its
\* owner is the qname of the query's first question, its class IN, its TTL
\* 86400, its type A for fast_answer and for an IPv4 address and AAAA for an
\* IPv6 address, its data the given address.
\* ------------------------------------------------------------------------
C27_FastAnswerRecord ==
    ret.fn \in {"fast_answer", "fast_answer_ip"} /\ arg.query.questions # <<>> =>
        /\ ret.out.kind = "Ok"
        /\ LET msg == ret.out.val
           IN  /\ msg.qr
               /\ msg.id = arg.query.id
               /\ msg.rcode = "NoError"
               /\ msg.questions = arg.query.questions
               /\ Len(msg.answers) = 1
               /\ msg.answers[1].owner = arg.query.questions[1].qname
               /\ msg.answers[1].owner # RootName
               /\ msg.answers[1].class = "IN"
               /\ msg.answers[1].ttl = Ttl
               /\ msg.answers[1].rtype =
                      IF ret.fn = "fast_answer" \/ arg.ip.family = "v4" THEN "A" ELSE "AAAA"
               /\ msg.answers[1].data = arg.ip.addr

\* fast_answer_ip answered a query of two questions for different names with
\* an AAAA record owned by the first.
C27_Witness ==
    /\ ret.fn = "fast_answer_ip"
    /\ arg.ip.family = "v6"
    /\ Len(arg.query.questions) = 2
    /\ arg.query.questions[1].qname # arg.query.questions[2].qname
    /\ ret.out.kind = "Ok"
    /\ ret.out.val.answers[1].rtype = "AAAA"
    /\ ret.out.val.answers[1].owner = arg.query.questions[1].qname

\* ------------------------------------------------------------------------
\* The shape of a branch list
\* ------------------------------------------------------------------------
\* Zero or more actions followed by exactly one tag, the last element.
Proper(l) ==
    /\ Len(l) >= 1
    /\ l[Len(l)].kind = "Tag"
    /\ \A i \in 1..(Len(l) - 1) : l[i].kind = "Action"

ActionsOf(l) == [i \in 1..(Len(l) - 1) |-> l[i].val]

\* The position of the first element of a kind in K, 0 when there is none.
FirstIn(l, K) ==
    IF \E i \in 1..Len(l) : l[i].kind \in K
    THEN CHOOSE i \in 1..Len(l) :
             /\ l[i].kind \in K
             /\ \A j \in 1..(i - 1) : l[j].kind \notin K
    ELSE 0

\* ------------------------------------------------------------------------
\* C28 as stated: a branch list deserializes if and only if it is zero or
\* more actions followed by exactly one tag as its last element, and then
\* keeps the actions in order with that tag as next; a list without a tag
\* fails with the missing-tag error, and a list with an element after its
\* first tag fails with the extra-element error.
\* ------------------------------------------------------------------------
C28_Original ==
    ret.fn = "visit_seq" =>
        /\ ret.out.kind = "Ok" <=> Proper(arg)
        /\ Proper(arg) => ret.out = ParBranch(ActionsOf(arg), arg[Len(arg)].val)
        /\ FirstIn(arg, {"Tag"}) = 0 => ret.out = MissingTag
        /\ FirstIn(arg, {"Tag"}) \in 1..(Len(arg) - 1) => ret.out = ExtraElement

\* ------------------------------------------------------------------------
\* C28: a branch list deserializes if and only if it is zero or more actions
\* followed by exactly one tag as its last element, and then keeps the
\* actions in order with that tag as next.  Otherwise the error is decided
\* at the first element that is not an action: without one the missing-tag
\* error; a value that is neither action nor tag gives its own error; after
\* a tag, the next element gives the extra-element error when it is an
\* action or a tag and its own error when it is neither.
\* ------------------------------------------------------------------------
C28_BranchListShape ==
    ret.fn = "visit_seq" =>
        LET k == FirstIn(arg, {"Tag", "Neither"})
        IN  /\ ret.out.kind = "Ok" <=> Proper(arg)
            /\ Proper(arg) => ret.out = ParBranch(ActionsOf(arg), arg[Len(arg)].val)
            /\ k = 0 => ret.out = MissingTag
            /\ k > 0 /\ arg[k].kind = "Neither" => ret.out = NoVariant
            /\ k > 0 /\ arg[k].kind = "Tag" /\ k < Len(arg) =>
                   ret.out = IF arg[k + 1].kind = "Neither" THEN NoVariant
                                                             ELSE ExtraElement

\* A list of two different actions and a tag was deserialized.
C28_Witness ==
    /\ ret.fn = "visit_seq"
    /\ Len(arg) = 3
    /\ ret.out.kind = "Ok"
    /\ Len(ret.out.seq) = 2
    /\ ret.out.seq[1] # ret.out.seq[2]

\* ------------------------------------------------------------------------
\* C29: insert(name, payload) sets the payload of exactly the node for name,
\* replacing what an earlier insert for the same name left there; every
\* other node that existed keeps its payload and its place, the nodes it
\* creates carry no payload; and the answer for every query that does not
\* have name as a suffix is the same as before the insert.
\* ------------------------------------------------------------------------
InsertFrame ==
    call.op = "insert" =>
        LET node == RevLabels(call.args[1])
        IN  /\ hosts[node] = call.args[2]
            /\ DOMAIN call.before \subseteq DOMAIN hosts
            /\ \A p \in DOMAIN call.before \ {node} : hosts[p] = call.before[p]
            /\ \A p \in DOMAIN hosts \ (DOMAIN call.before \cup {node}) :
                   hosts[p] = MatchNone

C29_InsertTouchesOnlyItsName ==
    call.op = "insert" =>
        /\ InsertFrame
        /\ \A q \in Names :
               ~ IsSuffix(call.args[1], q) =>
                   matches(hosts, q) = matches(call.before, q)

\* ------------------------------------------------------------------------
\* C30: on the sealed types the script module registers lookups only
\* (reslove, contains), no add operation; and once a hosts value is sealed,
\* whatever operations of the module follow, it answers every query as it
\* did at the moment of the seal.
\* ------------------------------------------------------------------------
SealedTypes == {"SealedHosts", "SealedDomain", "SealedIpCidr"}

C30_SealedIsFrozen ==
    /\ \A f \in ModuleFns :
           f.recv \in SealedTypes => f.name \in {"reslove", "contains"}
    /\ phase = "sealed" =>
           /\ \A q \in QueryNames : matches(hosts, q) = matches(sealedTrie, q)
           /\ asked # <<>> /\ call.op = "reslove" =>
                  answer = matches(sealedTrie, asked[1])

\* A sealed table with two entries answered a lookup with an ip.
C30_Witness ==
    /\ phase = "sealed"
    /\ call.op = "reslove"
    /\ Cardinality(DOMAIN entries) = 2
    /\ asked # <<>>
    /\ answer # "none"

\* ------------------------------------------------------------------------
\* C31: validate on a table that Table::new returned always gives Ok; and
\* on the rule map of any duplicate-free rule list validate gives the
\* verdict that Table::new gives for the list: Ok, or the same error with
\* the same tag or the same set of unused tags.
\* ------------------------------------------------------------------------
C31_ValidateAgreesWithNew ==
    /\ ret.fn = "validate" => ret.out = OkUnit
    /\ ret.fn = "validate_map" => ret.out = TableNew(rules).res

\* A table of two rules or more that Table::new returned was validated.
C31_Witness ==
    /\ ret.fn = "validate"
    /\ result.res.kind = "Ok"
    /\ Cardinality(DOMAIN result.table.rules) >= 2
    /\ ret.out = OkUnit

\* The rule map of a list that Table::new rejects was validated.
C31_RejectedMapValidated ==
    /\ ret.fn = "validate_map"
    /\ ret.out.kind \in {"UnusedRules", "RuleRecursion", "UndefinedTag"}

\* A line that is not skipped and whose name field Dname::from_str rejects.
HasBadName(line) ==
    /\ ~line.empty
    /\ line.fields # <<>>
    /\ line.fields[1].allowed
    /\ line.fields[1].name = BadName

\* An add_file call on a file that cannot be read or that has a line with a
\* name that cannot be parsed.
LoadMustFail ==
    /\ call.op = "add_file"
    /\ \/ ~call.args[1]
       \/ \E i \in 1..Len(call.args[2]) : HasBadName(call.args[2][i])

\* ------------------------------------------------------------------------
\* C32: when the file cannot be read, or a line that is not skipped has a
\* name that cannot be parsed as a domain name, add_file returns an error
\* and the hosts table is as it was before the call: no entry of the file,
\* not even of a valid line before the failing one, is inserted.
\* ------------------------------------------------------------------------
C32_AddFileAllOrNothing ==
    LoadMustFail =>
        /\ call.out.kind = "Err"
        /\ hosts = call.before

\* The part of C32 that holds: an add_file call that does not return Ok
\* leaves the table as it was, and when the lines before the first
\* unparsable name are IPv4 lines or skipped ones, the error is returned.
AddFileFailureKeepsTable ==
    /\ call.op = "add_file" /\ call.out.kind # "Ok" => hosts = call.before
    /\ LoadMustFail /\ call.args[1]
           /\ (\A i \in 1..Len(call.args[2]) :
                  \/ HasBadName(call.args[2][i])
                  \/ WellFormed4(call.args[2][i])
                  \/ (Ignorable(call.args[2][i]) /\ call.args[2][i].fields # <<>>)
                  \/ call.args[2][i].empty)
       => call.out.kind = "Err" /\ hosts = call.before

\* A file with a valid IPv4 line before a line with an unparsable name was
\* loaded into a table that held an entry.
BadNameAfterValidLine ==
    /\ LoadMustFail
    /\ call.args[1]
    /\ Len(call.args[2]) = 2
    /\ WellFormed4(call.args[2][1])
    /\ HasBadName(call.args[2][2])
    /\ call.out.kind = "Err"
    /\ Cardinality(DOMAIN call.before) > 1

\* ------------------------------------------------------------------------
\* C33: fast_answer called from a script with four 64-bit integers, on a
\* query with a question, never fails on the range of the integers: it
\* returns the answer whose A record has the octets a mod 256, b mod 256,
\* c mod 256 and d mod 256, a negative value wrapping round (-1 gives 255).
\* ------------------------------------------------------------------------
C33_OctetsAreTruncated ==
    ret.fn = "utils_fast_answer" /\ arg.query.questions # <<>> =>
        /\ ret.out.kind = "Ok"
        /\ Len(ret.out.val.answers) = 1
        /\ ret.out.val.answers[1].rtype = "A"
        /\ \A i \in 1..4 :
               LET o == ret.out.val.answers[1].data[i]
               IN  /\ o \in 0..255
                   /\ o = arg.ints[i] % 256
                   /\ \E k \in {(arg.ints[i] - o) \div 256} :
                          arg.ints[i] = o + 256 * k

\* An answer was built from a negative value, a value above 255 and a value
\* of the u8 range.
C33_Witness ==
    /\ ret.fn = "utils_fast_answer"
    /\ arg.query.questions # <<>>
    /\ arg.ints = <<-1, 300, 255, -129>>
    /\ ret.out.kind = "Ok"
    /\ ret.out.val.answers[1].data = <<255, 44, 255, 127>>

====
